---- MODULE Spec2Model ----
(***************************************************************************)
(* Automated HINT: the controller (controller.py), the score model         *)
(* (models/scoremodel.py), the matrix model (models/matrixmodel.py) and    *)
(* the settings dialog (views/settingsview.py) as a state machine.         *)
(*                                                                         *)
(* Every Tk event handler is one atomic action.  A handler works on the    *)
(* record Self; its field exc names the exception that leaves the handler  *)
(* and shown the message box it opens.  Tk reports the exception and the   *)
(* main loop goes on, with every assignment made before the raise kept.    *)
(*                                                                         *)
(* tmpy.handlers.AdaptiveTrialHandler, views.MainView and the calibration  *)
(* model are not part of the sources at hand; they are modelled from the   *)
(* design document (sections 3, 4.2 and 4.3).                              *)
(***************************************************************************)
EXTENDS Integers, Sequences, FiniteSets, TLC

VARIABLES
    settings,      \* self.settings: the shared Tk variables
    start_flag,    \* self.start_flag
    level_data,    \* self.level_data
    ath,           \* self.ath: the adaptive trial handler
    sm,            \* self.sm: the score model
    main_view,     \* self.main_view: words on display, state of the controls
    menu_start,    \* state of File>Start
    timer,         \* an after() callback is pending
    csv,           \* the data file written by _save
    audio,         \* the last presentation
    alive,         \* the main loop runs
    edits,         \* number of settings-dialog edits so far
    hist,          \* responses handed to ath.next and the levels they gave
    last,          \* the last on_start or on_next: what it started from, the
                   \* exception that left it, the message box it showed
    call,          \* arguments and result of a direct call of a function
    session,       \* the session configuration as it was when Start was pressed
    playing,       \* a stimulus is being played
    ended          \* number of runs of _end_of_task

vars == <<settings, start_flag, level_data, ath, sm, main_view, menu_start,
          timer, csv, audio, alive, edits, hist, last, call, session, playing, ended>>

----------------------------------------------------------------------------
(* Bounds *)

LongList == 5            \* sentences of list 1
ShortList == 2           \* sentences of list 2
MaxEdits == 1            \* settings-dialog edits per run
MaxSaveFailures == 1     \* failed writes of the data file per run
MaxWords == 3            \* words in a directly scored response set
MaxHistory == 6          \* length of a level history handed to get_snr directly
MaxCatalog == 4          \* rows of a catalog handed to the trial selection directly

(* Values *)

StartLevels == {65}
LowStartLevels == {3, 65}        \* starting levels of a staircase driven directly
StoredLevels == {70}             \* desired_level_dB as left by an earlier run
NoiseLevels == {65}
LevelEdits == {80}               \* typed into Settings > Sentence Options > Level
NoiseEdits == {60}               \* typed into Settings > Noise Options > Level
\* The settings hold lists as text, one character per element.
StepChoices == {<<"4", ",", " ", "4", ",", " ", "2">>, <<"0">>}
ListChoices == {<<"9">>, <<"2", ",", " ", "9">>, <<"1">>}
Vocabulary == <<"the", "dog", "ran">>
ButtonValues == {0, 1, 2}        \* 1 selected, 0 unselected, 2 any other state
CheckbuttonValues == {0, 1}      \* what a word's checkbutton holds in a session
Responses == {1, -1}
CatalogLists == {1, 2, 3}        \* list numbers of such a catalog
SelectionChoices == {<<"1">>, <<"3", ",", " ", "1">>, <<"2", ",", "2">>, <<"9">>}
SnrLevels == {62, 67}            \* levels of a history handed to get_snr directly
SnrNoiseLevels == {65, 60}
SnrExample == <<70, 66, 68, 64, 62, 60, 58, 56>>

Min(a, b) == IF a < b THEN a ELSE b

RECURSIVE Sum(_)
Sum(s) == IF s = <<>> THEN 0 ELSE Head(s) + Sum(Tail(s))

Range(s) == {s[i] : i \in 1..Len(s)}

Last(s) == s[Len(s)]

Abs(a) == IF a < 0 THEN -a ELSE a

Count(t, s) == Cardinality({i \in 1..Len(s) : s[i] = t})

SameBag(a, b) == \A t \in Range(a) \cup Range(b) : Count(t, a) = Count(t, b)

Digit(c) == CASE c = "0" -> 0 [] c = "1" -> 1 [] c = "2" -> 2 [] c = "3" -> 3
              [] c = "4" -> 4 [] c = "5" -> 5 [] c = "6" -> 6 [] c = "7" -> 7
              [] c = "8" -> 8 [] c = "9" -> 9

\* tmpy.functions.helper_funcs.string_to_list with datatype 'int': the text
\* is split at the commas and every piece is read as a decimal number,
\* blanks ignored.
string_to_list(string_list) ==
    LET RECURSIVE loop(_, _, _)
        loop(i, number, out) ==
            IF i > Len(string_list) THEN Append(out, number)
            ELSE IF string_list[i] = "," THEN loop(i + 1, 0, Append(out, number))
            ELSE IF string_list[i] = " " THEN loop(i + 1, number, out)
            ELSE loop(i + 1, 10 * number + Digit(string_list[i]), out)
    IN loop(1, 0, <<>>)

----------------------------------------------------------------------------
(* models/scoremodel.py *)

\* ScoreModel.__init__ assigns no attribute.
ScoreModel == [attrs |-> {}, outcome |-> 0, final_snr |-> [num |-> 0, den |-> 1]]

\* As _get_word_lists, with a plain else in place of the test for 0.
_get_word_lists_else(words, button_states) ==
    LET RECURSIVE loop(_, _)
        loop(i, resp_dict) ==
            IF i > Len(button_states) THEN resp_dict
            ELSE LET key == button_states[i][1]
                     value == button_states[i][2]
                 IN loop(i + 1,
                      IF value = 1
                      THEN [resp_dict EXCEPT !.correct = Append(@, words[key])]
                      ELSE [resp_dict EXCEPT !.incorrect = Append(@, words[key])])
    IN loop(1, [correct |-> <<>>, incorrect |-> <<>>])

\* As _get_word_lists, leaving the loop at the first incorrect word.
_get_word_lists_break(words, button_states) ==
    LET RECURSIVE loop(_, _)
        loop(i, resp_dict) ==
            IF i > Len(button_states) THEN resp_dict
            ELSE LET key == button_states[i][1]
                     value == button_states[i][2]
                 IN IF value = 1
                    THEN loop(i + 1, [resp_dict EXCEPT !.correct = Append(@, words[key])])
                    ELSE IF value = 0
                    THEN [resp_dict EXCEPT !.incorrect = Append(@, words[key])]
                    ELSE loop(i + 1, resp_dict)
    IN loop(1, [correct |-> <<>>, incorrect |-> <<>>])

\* button_states is a dict: a sequence of <<key, value>> in iteration order.
_get_word_lists(words, button_states) ==
    LET RECURSIVE loop(_, _)
        loop(i, resp_dict) ==
            IF i > Len(button_states) THEN resp_dict
            ELSE LET key == button_states[i][1]
                     value == button_states[i][2]
                 IN loop(i + 1,
                      IF value = 1
                      THEN [resp_dict EXCEPT !.correct = Append(@, words[key])]
                      ELSE IF value = 0
                      THEN [resp_dict EXCEPT !.incorrect = Append(@, words[key])]
                      ELSE resp_dict)
    IN loop(1, [correct |-> <<>>, incorrect |-> <<>>])

\* As _get_outcome, with the two outcome codes exchanged.
_get_outcome_swapped(model, resp_dict) ==
    [model EXCEPT !.attrs = @ \cup {"outcome"},
                  !.outcome = IF resp_dict.incorrect = <<>> THEN -1 ELSE 1]

\* As _get_outcome, testing the list of correct words.
_get_outcome_correct(model, resp_dict) ==
    [model EXCEPT !.attrs = @ \cup {"outcome"},
                  !.outcome = IF resp_dict.correct = <<>> THEN 1 ELSE -1]

\* As _get_outcome, without the else branch: an earlier outcome is kept.
_get_outcome_sticky(model, resp_dict) ==
    [model EXCEPT !.attrs = @ \cup {"outcome"},
                  !.outcome = IF resp_dict.incorrect # <<>> THEN -1
                              ELSE IF "outcome" \in model.attrs THEN model.outcome ELSE 1]

_get_outcome(model, resp_dict) ==
    [model EXCEPT !.attrs = @ \cup {"outcome"},
                  !.outcome = IF resp_dict.incorrect = <<>> THEN 1 ELSE -1]

score(model, words, button_states) ==
    LET resp_dict == _get_word_lists(words, button_states)
    IN [sm |-> _get_outcome(model, resp_dict), resp_dict |-> resp_dict]

\* As get_snr, averaging all the levels.
get_snr_all(model, trial_levels, noise_level) ==
    LET tail == trial_levels
    IN IF tail = <<>>
       THEN [sm |-> model, exc |-> "StatisticsError"]
       ELSE [sm |-> [model EXCEPT !.attrs = @ \cup {"final_snr"},
                                  !.final_snr = [num |-> Sum(tail) - noise_level * Len(tail),
                                                 den |-> Len(tail)]],
             exc |-> "none"]

\* As get_snr, with the slice trial_levels[3:].
get_snr_from3(model, trial_levels, noise_level) ==
    LET tail == SubSeq(trial_levels, 4, Len(trial_levels))
    IN IF tail = <<>>
       THEN [sm |-> model, exc |-> "StatisticsError"]
       ELSE [sm |-> [model EXCEPT !.attrs = @ \cup {"final_snr"},
                                  !.final_snr = [num |-> Sum(tail) - noise_level * Len(tail),
                                                 den |-> Len(tail)]],
             exc |-> "none"]

\* statistics.mean raises StatisticsError on an empty sequence; the mean is
\* kept exact as the fraction num/den.
get_snr(model, trial_levels, noise_level) ==
    LET tail == SubSeq(trial_levels, 5, Len(trial_levels))
    IN IF tail = <<>>
       THEN [sm |-> model, exc |-> "StatisticsError"]
       ELSE [sm |-> [model EXCEPT !.attrs = @ \cup {"final_snr"},
                                  !.final_snr = [num |-> Sum(tail) - noise_level * Len(tail),
                                                 den |-> Len(tail)]],
             exc |-> "none"]

----------------------------------------------------------------------------
(* models/matrixmodel.py and the sentence matrix *)

Sentence(l, s) == SubSeq(Vocabulary, 1, IF s = 2 THEN 2 ELSE 1)

MatrixRow(l, s) ==
    [list_num |-> l, sentence_num |-> s, sentence |-> Sentence(l, s), file |-> <<l, s>>]

\* The sentence matrix: the rows of list 1, then the rows of list 2.
HINT_SENTENCES ==
    [s \in 1..LongList |-> MatrixRow(1, s)] \o [s \in 1..ShortList |-> MatrixRow(2, s)]

\* import_matrix_file returns the matrix, or None after a TypeError it logs.
import_matrix_file(import_result) ==
    IF import_result = "TypeError"
    THEN [none |-> TRUE, rows |-> <<>>]
    ELSE [none |-> FALSE, rows |-> HINT_SENTENCES]

----------------------------------------------------------------------------
(* tmpy.handlers.AdaptiveTrialHandler, from the design document 4.2 *)

NoTrial == [list_num |-> 0, sentence_num |-> 0, sentence |-> <<>>, file |-> <<0, 0>>]

NoHandler == [made |-> FALSE, trials_df |-> <<>>, parameter |-> 0, step_sizes |-> <<>>,
              index |-> 0, trial_info |-> NoTrial]

AdaptiveTrialHandler(trials_df, parameter, step_sizes) ==
    [made |-> TRUE, trials_df |-> trials_df, parameter |-> parameter,
     step_sizes |-> step_sizes, index |-> 0, trial_info |-> NoTrial]

StepSize(h) == h.step_sizes[Min(h.index, Len(h.step_sizes) - 1) + 1]

\* response 1 (PASS) lowers the level, -1 (FAIL) raises it.
advance(h, response) ==
    [h EXCEPT !.parameter = @ - response * StepSize(h), !.index = @ + 1]

\* next(response): a terminal handler raises IndexError; otherwise the
\* response is applied and the trial at the new index is fetched, which
\* raises IndexError when the trials are exhausted.
ath_next(h, response) ==
    IF h.index >= Len(h.trials_df)
    THEN [ath |-> h, exc |-> "IndexError"]
    ELSE LET h2 == advance(h, response)
         IN IF h2.index >= Len(h2.trials_df)
            THEN [ath |-> h2, exc |-> "IndexError"]
            ELSE [ath |-> [h2 EXCEPT !.trial_info = h2.trials_df[h2.index + 1]],
                  exc |-> "none"]

----------------------------------------------------------------------------
(* controller.py *)

Self == [settings |-> settings, start_flag |-> start_flag, level_data |-> level_data,
         ath |-> ath, sm |-> sm, main_view |-> main_view, menu_start |-> menu_start,
         timer |-> timer, csv |-> csv, audio |-> audio, alive |-> alive,
         playing |-> playing, ended |-> ended, exc |-> "none", shown |-> "none"]

\* As order, in alphabetical order.
order_alphabetical == <<"condition", "correct", "desired_level_dB", "incorrect", "list_num",
                        "response", "sentence_num", "step_size", "subject", "trial">>

order == <<"trial", "subject", "condition", "list_num", "sentence_num",
           "desired_level_dB", "correct", "incorrect", "step_size", "response">>

NoRow == [order |-> <<>>, desired_level_dB |-> 0, correct |-> <<>>, incorrect |-> <<>>,
          trial_info |-> NoTrial]

\* As _quit, taking back the level recorded last.
_quit_rollback(self) ==
    [self EXCEPT !.alive = FALSE, !.timer = FALSE, !.playing = FALSE,
                 !.level_data = SubSeq(@, 1, Len(@) - 1)]

\* destroy() ends the main loop and with it the process: the pending after()
\* callback and the playback go with it.
_quit(self) == [self EXCEPT !.alive = FALSE, !.timer = FALSE, !.playing = FALSE]

\* As SelectTrials, comparing with the first selected list only.
SelectTrials_first(rows, lists) ==
    SelectSeq(rows, LAMBDA row : row.list_num = lists[1])

\* matrix[matrix['list_num'].isin(lists)]: the rows whose list_num is one of
\* lists, in the order of the matrix.
SelectTrials(rows, lists) ==
    SelectSeq(rows, LAMBDA row : row.list_num \in Range(lists))

\* matrix['list_num'] on None raises TypeError.
_prepare_trials(self, import_result) ==
    LET matrix == import_matrix_file(import_result)
        lists == string_to_list(self.settings.lists)
    IN IF matrix.none
       THEN [exc |-> "TypeError", trials_df |-> <<>>]
       ELSE [exc |-> "none", trials_df |-> SelectTrials(matrix.rows, lists)]

\* calibration_model.calc_level(desired_spl) stores the level it is given in
\* desired_level_dB; _save_settings then writes the settings file.
_calc_level(self, desired_spl) ==
    [self EXCEPT !.settings.desired_level_dB = desired_spl]

\* ath.trial_info['file'] fails while no trial has been fetched.
_prepare_stimulus(self) ==
    LET s1 == _calc_level(self, self.ath.parameter)
    IN IF s1.ath.trial_info = NoTrial
       THEN [s1 EXCEPT !.exc = "TypeError"]
       ELSE s1

\* As play, recording the level of the presentation in level_data.
play_recording(self) ==
    LET s1 == _prepare_stimulus(self)
    IN IF s1.exc # "none" THEN s1
       ELSE [s1 EXCEPT !.playing = TRUE,
                       !.level_data = Append(@, s1.settings.desired_level_dB),
                       !.audio = [played |-> TRUE, file |-> s1.ath.trial_info.file,
                                  index |-> s1.ath.index,
                                  level |-> s1.settings.desired_level_dB]]

\* a.play starts the playback and returns; playing holds until the duration
\* of the stimulus has elapsed.
play(self) ==
    LET s1 == _prepare_stimulus(self)
    IN IF s1.exc # "none" THEN s1
       ELSE [s1 EXCEPT !.playing = TRUE,
                       !.audio = [played |-> TRUE, file |-> s1.ath.trial_info.file,
                                  index |-> s1.ath.index,
                                  level |-> s1.settings.desired_level_dB]]

_end_of_task(self) ==
    LET r == get_snr(self.sm, self.level_data, self.settings.noise_level_dB)
    IN IF r.exc # "none"
       THEN [self EXCEPT !.ended = @ + 1, !.exc = r.exc]
       ELSE [self EXCEPT !.ended = @ + 1, !.sm = r.sm, !.shown = "Task Complete",
                         !.alive = FALSE]

_save(self, responses, save_result) ==
    IF save_result = "PermissionError" THEN [self EXCEPT !.shown = "Access Denied"]
    ELSE IF save_result = "OSError" THEN [self EXCEPT !.shown = "File Not Found"]
    ELSE [self EXCEPT !.csv = [rows |-> @.rows + 1,
                               row |-> [order |-> order,
                                        desired_level_dB |-> self.settings.desired_level_dB,
                                        correct |-> responses.correct,
                                        incorrect |-> responses.incorrect,
                                        trial_info |-> self.ath.trial_info]]]

\* The dict main_view.buttonstates_dict, keyed by word position.
ButtonStates(states) == [i \in 1..Len(states) |-> <<i, states[i]>>]

\* As on_next, without the except IndexError branch: the exception leaves
\* the handler and _end_of_task is not called.
on_next_propagates(self, states, save_result) ==
    LET s1 == IF ~self.start_flag
              THEN LET scored == score(self.sm, self.main_view.words, ButtonStates(states))
                       saved == _save([self EXCEPT !.sm = scored.sm], scored.resp_dict,
                                      save_result)
                   IN [saved EXCEPT !.level_data = Append(@, saved.settings.desired_level_dB)]
              ELSE self
        s2 == IF self.start_flag THEN [s1 EXCEPT !.start_flag = FALSE] ELSE s1
    IN IF "outcome" \notin s2.sm.attrs
       THEN [s2 EXCEPT !.exc = "AttributeError"]
       ELSE LET r == ath_next(s2.ath, s2.sm.outcome)
                s3 == [s2 EXCEPT !.ath = r.ath]
            IN IF r.exc = "IndexError"
               THEN [s3 EXCEPT !.exc = "IndexError"]
               ELSE LET s4 == [s3 EXCEPT
                                 !.main_view.words = s3.ath.trial_info.sentence,
                                 !.main_view.trial = <<s3.ath.index + 1, Len(s3.ath.trials_df)>>,
                                 !.main_view.controls = "Presenting"]
                        s5 == play(s4)
                    IN IF s5.exc # "none" THEN s5 ELSE [s5 EXCEPT !.timer = TRUE]

\* As on_next, handing the handler the outcome read before the trial on
\* display is scored.
on_next_stale(self, states, save_result) ==
    LET s1 == IF ~self.start_flag
              THEN LET scored == score(self.sm, self.main_view.words, ButtonStates(states))
                       saved == _save([self EXCEPT !.sm = scored.sm], scored.resp_dict,
                                      save_result)
                   IN [saved EXCEPT !.level_data = Append(@, saved.settings.desired_level_dB)]
              ELSE self
        s2 == IF self.start_flag THEN [s1 EXCEPT !.start_flag = FALSE] ELSE s1
    IN IF "outcome" \notin s2.sm.attrs
       THEN [s2 EXCEPT !.exc = "AttributeError"]
       ELSE LET r == ath_next(s2.ath, IF "outcome" \in self.sm.attrs
                                      THEN self.sm.outcome ELSE 1)
                s3 == [s2 EXCEPT !.ath = r.ath]
            IN IF r.exc = "IndexError"
               THEN _end_of_task(s3)
               ELSE LET s4 == [s3 EXCEPT
                                 !.main_view.words = s3.ath.trial_info.sentence,
                                 !.main_view.trial = <<s3.ath.index + 1, Len(s3.ath.trials_df)>>,
                                 !.main_view.controls = "Presenting"]
                        s5 == play(s4)
                    IN IF s5.exc # "none" THEN s5 ELSE [s5 EXCEPT !.timer = TRUE]

on_next(self, states, save_result) ==
    LET s1 == IF ~self.start_flag
              THEN LET scored == score(self.sm, self.main_view.words, ButtonStates(states))
                       saved == _save([self EXCEPT !.sm = scored.sm], scored.resp_dict,
                                      save_result)
                   IN [saved EXCEPT !.level_data = Append(@, saved.settings.desired_level_dB)]
              ELSE self
        s2 == IF self.start_flag THEN [s1 EXCEPT !.start_flag = FALSE] ELSE s1
    IN IF "outcome" \notin s2.sm.attrs
       THEN [s2 EXCEPT !.exc = "AttributeError"]
       ELSE LET r == ath_next(s2.ath, s2.sm.outcome)
                s3 == [s2 EXCEPT !.ath = r.ath]
            IN IF r.exc = "IndexError"
               THEN _end_of_task(s3)
               ELSE LET s4 == [s3 EXCEPT
                                 !.main_view.words = s3.ath.trial_info.sentence,
                                 !.main_view.trial = <<s3.ath.index + 1, Len(s3.ath.trials_df)>>,
                                 !.main_view.controls = "Presenting"]
                        s5 == play(s4)
                    IN IF s5.exc # "none" THEN s5 ELSE [s5 EXCEPT !.timer = TRUE]

\* As FormatStepSizes, with a step size of at least 1.
FormatStepSizes_positive(self) ==
    LET steps == string_to_list(self.settings.step_sizes)
    IN [i \in 1..Len(steps) |-> IF steps[i] < 1 THEN 1 ELSE steps[i]]

\* As FormatStepSizes, reading the 'lists' setting.
FormatStepSizes_lists(self) == string_to_list(self.settings.lists)

FormatStepSizes(self) == string_to_list(self.settings.step_sizes)

MakeHandler(self, trials_df) ==
    AdaptiveTrialHandler(trials_df, self.settings.starting_level_dB, FormatStepSizes(self))

\* As on_start, leaving the Start command enabled.
on_start_restartable(self, import_result) ==
    LET t == _prepare_trials(self, import_result)
    IN IF t.exc # "none"
       THEN [self EXCEPT !.exc = t.exc]
       ELSE on_next([self EXCEPT !.ath = MakeHandler(self, t.trials_df),
                                 !.main_view.controls = "Next"],
                    <<>>, "ok")

on_start(self, import_result) ==
    LET t == _prepare_trials(self, import_result)
    IN IF t.exc # "none"
       THEN [self EXCEPT !.exc = t.exc]
       ELSE on_next([self EXCEPT !.ath = MakeHandler(self, t.trials_df),
                                 !.menu_start = "disabled",
                                 !.main_view.controls = "Next"],
                    <<>>, "ok")

----------------------------------------------------------------------------
(* The application *)

NoAudio == [played |-> FALSE, file |-> <<0, 0>>, index |-> 0, level |-> 0]

\* What on_start and _end_of_task read of the settings.
SessionConfiguration(s) ==
    [lists |-> s.lists, step_sizes |-> s.step_sizes,
     starting_level_dB |-> s.starting_level_dB, noise_level_dB |-> s.noise_level_dB]

NoCall == [done |-> FALSE, words |-> <<>>, button_states |-> <<>>, permuted |-> <<>>,
           before |-> ScoreModel, resp_dict |-> [correct |-> <<>>, incorrect |-> <<>>],
           resp_perm |-> [correct |-> <<>>, incorrect |-> <<>>], outcome_perm |-> 0]

NoLast == [op |-> "init", scored |-> FALSE, words |-> <<>>, states |-> <<>>,
           save |-> "none", index |-> 0, parameter |-> 0, level_data |-> <<>>,
           audio |-> NoAudio,
           rows |-> 0, made |-> FALSE, import |-> "none", exc |-> "none",
           shown |-> "none"]

\* r is the result of the handler.
Snapshot(op, scored, states, save_result, import_result, r) ==
    [op |-> op, scored |-> scored, words |-> main_view.words, states |-> states,
     save |-> save_result, index |-> ath.index, parameter |-> ath.parameter,
     level_data |-> level_data, audio |-> audio, rows |-> csv.rows, made |-> ath.made,
     import |-> import_result, exc |-> r.exc, shown |-> r.shown]

InitCommon ==
    /\ start_flag = TRUE
    /\ level_data = <<>>
    /\ ath = NoHandler
    /\ sm = ScoreModel
    /\ main_view = [words |-> <<>>, trial |-> <<0, 0>>, controls |-> "disabled"]
    /\ menu_start = "normal"
    /\ timer = FALSE
    /\ csv = [rows |-> 0, row |-> NoRow]
    /\ audio = NoAudio
    /\ alive = TRUE
    /\ edits = 0
    /\ hist = <<>>
    /\ last = NoLast
    /\ call = NoCall
    /\ session = SessionConfiguration(settings)
    /\ playing = FALSE
    /\ ended = 0

Init ==
    /\ settings \in [lists : ListChoices, step_sizes : StepChoices,
                     starting_level_dB : StartLevels, desired_level_dB : StoredLevels,
                     noise_level_dB : NoiseLevels]
    /\ InitCommon

Commit(r) ==
    /\ settings' = r.settings
    /\ start_flag' = r.start_flag
    /\ level_data' = r.level_data
    /\ ath' = r.ath
    /\ sm' = r.sm
    /\ main_view' = r.main_view
    /\ menu_start' = r.menu_start
    /\ timer' = r.timer
    /\ csv' = r.csv
    /\ audio' = r.audio
    /\ alive' = r.alive
    /\ playing' = r.playing
    /\ ended' = r.ended
    /\ hist' = IF r.ath.made /\ ath.made /\ r.ath.index = ath.index + 1
               THEN Append(hist, [response |-> r.sm.outcome, level |-> r.ath.parameter])
               ELSE hist
    /\ UNCHANGED call

\* <<FileStart>>
FileStart ==
    /\ alive
    /\ menu_start = "normal"
    /\ \E import_result \in {"ok", "TypeError"} :
          /\ Commit(on_start(Self, import_result))
          /\ last' = Snapshot("on_start", FALSE, <<>>, "none", import_result,
                              on_start(Self, import_result))
    /\ session' = SessionConfiguration(settings)
    /\ UNCHANGED edits

\* <<MainNext>>: the button states are what the user has marked.
MainNext ==
    /\ alive
    /\ main_view.controls = "Next"
    /\ \E states \in [1..Len(main_view.words) -> CheckbuttonValues],
          save_result \in {"ok", "PermissionError", "OSError"} :
          /\ save_result # "ok" => Len(level_data) - csv.rows < MaxSaveFailures
          /\ Commit(on_next(Self, states, save_result))
          /\ last' = Snapshot("on_next", ~start_flag, states,
                              IF start_flag THEN "none" ELSE save_result, "none",
                              on_next(Self, states, save_result))
    /\ UNCHANGED <<edits, session>>

\* <<MainRepeat>>
MainRepeat ==
    /\ alive
    /\ main_view.controls = "Next"
    /\ Commit(play(Self))
    /\ UNCHANGED <<edits, last, session>>

\* The after() callback of on_next re-enables the controls.
AfterPlayback ==
    /\ alive
    /\ timer
    /\ Commit([Self EXCEPT !.timer = FALSE, !.main_view.controls = "Next",
                            !.playing = FALSE])
    /\ UNCHANGED <<edits, last, session>>

\* The playback started by Repeat comes to its end.
PlaybackEnds ==
    /\ alive
    /\ playing
    /\ ~timer
    /\ Commit([Self EXCEPT !.playing = FALSE])
    /\ UNCHANGED <<edits, last, session>>

\* Settings dialog: the Level entry of the sentence options is bound to
\* settings['desired_level_dB'].
SettingsSentenceLevel ==
    /\ alive
    /\ edits < MaxEdits
    /\ \E v \in LevelEdits :
          Commit([Self EXCEPT !.settings.desired_level_dB = v])
    /\ edits' = edits + 1
    /\ UNCHANGED <<last, session>>

\* Settings dialog: the Level entry of the noise options is bound to
\* settings['noise_level_dB'].
SettingsNoiseLevel ==
    /\ alive
    /\ edits < MaxEdits
    /\ \E v \in NoiseEdits :
          Commit([Self EXCEPT !.settings.noise_level_dB = v])
    /\ edits' = edits + 1
    /\ UNCHANGED <<last, session>>

\* <<FileQuit>> and WM_DELETE_WINDOW
FileQuit ==
    /\ alive
    /\ Commit(_quit(Self))
    /\ UNCHANGED <<edits, last, session>>

Next ==
    \/ FileStart
    \/ MainNext
    \/ MainRepeat
    \/ AfterPlayback
    \/ PlaybackEnds
    \/ SettingsSentenceLevel
    \/ SettingsNoiseLevel
    \/ FileQuit

Spec == Init /\ [][Next]_vars

----------------------------------------------------------------------------
(* The trial handler on its own: built as on_start builds it, then driven  *)
(* with arbitrary responses.                                               *)

HandlerMake ==
    /\ ~ath.made
    /\ ath' = MakeHandler(Self, _prepare_trials(Self, "ok").trials_df)
    /\ UNCHANGED <<settings, start_flag, level_data, sm, main_view, menu_start, timer,
                   csv, audio, alive, edits, hist, last, call, session, playing, ended>>

HandlerNext ==
    /\ ath.made
    /\ \E response \in Responses :
          LET r == ath_next(ath, response)
          IN /\ ath' = r.ath
             /\ last' = [last EXCEPT !.op = "next", !.exc = r.exc]
             /\ hist' = IF r.ath.index = ath.index + 1
                        THEN Append(hist, [response |-> response, level |-> r.ath.parameter])
                        ELSE hist
    /\ UNCHANGED <<settings, start_flag, level_data, sm, main_view, menu_start, timer,
                   csv, audio, alive, edits, call, session, playing, ended>>

HandlerStep == HandlerMake \/ HandlerNext

HandlerSpec == Init /\ [][HandlerStep]_vars

\* The same, over the trials of list 1 and from a low starting level too.
StaircaseInit ==
    /\ settings \in [lists : {<<"1">>}, step_sizes : StepChoices,
                     starting_level_dB : LowStartLevels, desired_level_dB : StoredLevels,
                     noise_level_dB : NoiseLevels]
    /\ InitCommon

StaircaseSpec == StaircaseInit /\ [][HandlerStep]_vars

----------------------------------------------------------------------------
(* The score model on its own: one call of score on a response set, and on *)
(* the same set with its entries in another order.                         *)

DefaultSettings ==
    [lists |-> <<"1", ",", " ", "2">>,
     step_sizes |-> <<"4", ",", " ", "4", ",", " ", "4", ",", " ", "4", ",", " ", "2">>,
     starting_level_dB |-> 65, desired_level_dB |-> 65, noise_level_dB |-> 65]

ScoreWords == {Vocabulary[1], Vocabulary[2]}

\* The score model is fresh or holds the outcome of an earlier call.
ScoreModelStates ==
    {ScoreModel} \cup {[ScoreModel EXCEPT !.attrs = {"outcome"}, !.outcome = o] : o \in Responses}

ScoreInit ==
    /\ settings = DefaultSettings
    /\ start_flag = TRUE
    /\ level_data = <<>>
    /\ ath = NoHandler
    /\ sm \in ScoreModelStates
    /\ main_view = [words |-> <<>>, trial |-> <<0, 0>>, controls |-> "disabled"]
    /\ menu_start = "normal"
    /\ timer = FALSE
    /\ csv = [rows |-> 0, row |-> NoRow]
    /\ audio = NoAudio
    /\ alive = TRUE
    /\ edits = 0
    /\ hist = <<>>
    /\ last = NoLast
    /\ session = SessionConfiguration(settings)
    /\ playing = FALSE
    /\ ended = 0
    /\ \E n \in 0..MaxWords :
          \E words \in [1..n -> ScoreWords], values \in [1..n -> ButtonValues],
             perm \in Permutations(1..n) :
             call = [NoCall EXCEPT !.words = words,
                                   !.button_states = [i \in 1..n |-> <<i, values[i]>>],
                                   !.permuted = [i \in 1..n |-> <<perm[i], values[perm[i]]>>]]

ScoreCall ==
    /\ ~call.done
    /\ LET r == score(sm, call.words, call.button_states)
           p == score(sm, call.words, call.permuted)
       IN /\ sm' = r.sm
          /\ call' = [call EXCEPT !.done = TRUE, !.before = sm,
                                  !.resp_dict = r.resp_dict,
                                  !.resp_perm = p.resp_dict,
                                  !.outcome_perm = p.sm.outcome]
    /\ UNCHANGED <<settings, start_flag, level_data, ath, main_view, menu_start, timer,
                   csv, audio, alive, edits, hist, last, session, playing, ended>>

ScoreSpec == ScoreInit /\ [][ScoreCall]_vars

----------------------------------------------------------------------------
(* The threshold estimate on its own: one call of get_snr on a level       *)
(* history and a noise level.                                              *)

SnrHistories == {SnrExample} \cup UNION {[1..n -> SnrLevels] : n \in 0..MaxHistory}

SnrInit ==
    /\ \E noise \in SnrNoiseLevels :
          settings = [DefaultSettings EXCEPT !.noise_level_dB = noise]
    /\ start_flag = TRUE
    /\ level_data \in SnrHistories
    /\ ath = NoHandler
    /\ sm = ScoreModel
    /\ main_view = [words |-> <<>>, trial |-> <<0, 0>>, controls |-> "disabled"]
    /\ menu_start = "normal"
    /\ timer = FALSE
    /\ csv = [rows |-> 0, row |-> NoRow]
    /\ audio = NoAudio
    /\ alive = TRUE
    /\ edits = 0
    /\ hist = <<>>
    /\ last = NoLast
    /\ call = NoCall
    /\ session = SessionConfiguration(settings)
    /\ playing = FALSE
    /\ ended = 0

SnrCall ==
    /\ last.op = "init"
    /\ LET r == get_snr(sm, level_data, settings.noise_level_dB)
       IN /\ sm' = r.sm
          /\ last' = [NoLast EXCEPT !.op = "get_snr", !.exc = r.exc]
    /\ UNCHANGED <<settings, start_flag, level_data, ath, main_view, menu_start, timer,
                   csv, audio, alive, edits, hist, call, session, playing, ended>>

SnrSpec == SnrInit /\ [][SnrCall]_vars

----------------------------------------------------------------------------
(* The trial selection on its own: the selection of _prepare_trials on a   *)
(* catalog and a text of selected lists.                                   *)

\* Catalogs of up to MaxCatalog rows; a row is known by its position.
Catalogs ==
    UNION {{[i \in 1..n |-> MatrixRow(numbers[i], i)] : numbers \in [1..n -> CatalogLists]}
           : n \in 0..MaxCatalog}

SelectInit ==
    /\ \E text \in SelectionChoices : settings = [DefaultSettings EXCEPT !.lists = text]
    /\ start_flag = TRUE
    /\ level_data = <<>>
    /\ ath = NoHandler
    /\ sm = ScoreModel
    /\ main_view = [words |-> <<>>, trial |-> <<0, 0>>, controls |-> "disabled"]
    /\ menu_start = "normal"
    /\ timer = FALSE
    /\ csv = [rows |-> 0, row |-> NoRow]
    /\ audio = NoAudio
    /\ alive = TRUE
    /\ edits = 0
    /\ hist = <<>>
    /\ last = NoLast
    /\ \E catalog \in Catalogs :
          call = [done |-> FALSE, catalog |-> catalog, trials_df |-> <<>>]
    /\ session = SessionConfiguration(settings)
    /\ playing = FALSE
    /\ ended = 0

SelectCall ==
    /\ ~call.done
    /\ call' = [call EXCEPT !.done = TRUE,
                            !.trials_df = SelectTrials(call.catalog,
                                                       string_to_list(settings.lists))]
    /\ UNCHANGED <<settings, start_flag, level_data, ath, sm, main_view, menu_start, timer,
                   csv, audio, alive, edits, hist, last, session, playing, ended>>

SelectSpec == SelectInit /\ [][SelectCall]_vars

----------------------------------------------------------------------------
(* Properties *)

\* The last on_next advanced the trial handler.
Advanced == last.op = "on_next" /\ last.made /\ ath.index = last.index + 1

\* The outcome of a set of button states: FAIL (-1) when a word is marked 0.
ExpectedOutcome(states) == IF \E i \in DOMAIN states : states[i] = 0 THEN -1 ELSE 1

Schedule == string_to_list(settings.step_sizes)

ScheduleStep(i) == Schedule[Min(i, Len(Schedule) - 1) + 1]

\* The last on_next ended in _end_of_task.
EndOfTaskRan ==
    \/ last.exc = "StatisticsError"
    \/ (last.exc = "none" /\ last.shown = "Task Complete" /\ "final_snr" \in sm.attrs /\ ~alive)

\* C1: after k advancements the level history has exactly k entries and the
\* trial index is k.
C1_HistoryLengthIsTrialIndex ==
    ath.made => (Len(level_data) = ath.index /\ Len(hist) = ath.index)

\* C2: every advancement changes the level by the step size of the trial
\* just scored: up after a FAIL, down after a PASS, the outcome being the one
\* score has just produced from the button states.
C2_LevelStepsByOutcome ==
    Advanced =>
        /\ last.scored
        /\ sm.outcome = ExpectedOutcome(last.states)
        /\ ExpectedOutcome(last.states) = -1 =>
              ath.parameter = last.parameter + ScheduleStep(last.index)
        /\ ExpectedOutcome(last.states) = 1 =>
              ath.parameter = last.parameter - ScheduleStep(last.index)

C2_Witness ==
    /\ Advanced
    /\ ExpectedOutcome(last.states) = -1
    /\ ath.parameter = last.parameter + 4

\* C3: the step applied at trial i is step_sizes[min(i, len(step_sizes)-1)],
\* the last step size being used once the schedule is exhausted; with steps
\* 4, 4, 2 and start 65, FAIL, PASS, FAIL give 69, 65, 67.
C3_StepFollowsSchedule ==
    /\ \A k \in 1..Len(hist) :
          LET before == IF k = 1 THEN settings.starting_level_dB ELSE hist[k - 1].level
          IN Abs(hist[k].level - before) = ScheduleStep(k - 1)
    /\ (/\ Schedule = <<4, 4, 2>>
        /\ settings.starting_level_dB = 65
        /\ Len(hist) >= 3
        /\ <<hist[1].response, hist[2].response, hist[3].response>> = <<-1, 1, -1>>)
       => <<hist[1].level, hist[2].level, hist[3].level>> = <<69, 65, 67>>

C3_Witness ==
    /\ Schedule = <<4, 4, 2>>
    /\ Len(hist) >= 5
    /\ <<hist[1].response, hist[2].response, hist[3].response>> = <<-1, 1, -1>>
    /\ hist[3].level = 67
    /\ Abs(hist[5].level - hist[4].level) = 2

\* C4: the advancement made at trial_index = total_trials - 1 leaves the
\* handler terminal: that request and every later one raise IndexError,
\* which on_next answers with the end of the task, and the trial index never
\* exceeds the number of trials.
C4_ExhaustedHandlerIsTerminal ==
    ath.made =>
        /\ ath.index <= Len(ath.trials_df)
        /\ (Advanced /\ last.index = Len(ath.trials_df) - 1) => EndOfTaskRan
        /\ ath.index = Len(ath.trials_df) =>
              \A r \in Responses : ath_next(ath, r) = [ath |-> ath, exc |-> "IndexError"]

C4_Witness ==
    /\ Advanced
    /\ last.index = Len(ath.trials_df) - 1
    /\ ath.index = Len(ath.trials_df)
    /\ EndOfTaskRan

\* C5: a failed save in on_next leaves the trial index, the current level
\* and the level history as they were.
C5_FailedSaveKeepsStaircase ==
    (last.op = "on_next" /\ last.save \in {"PermissionError", "OSError"}) =>
        /\ ath.index = last.index
        /\ ath.parameter = last.parameter
        /\ level_data = last.level_data

\* C6: the value appended to the level history for a scored trial is the
\* level at which that trial was presented, the handler's level before the
\* step for that trial.
C6_RecordedLevelIsPresentedLevel ==
    (last.op = "on_next" /\ last.scored /\ last.audio.played
       /\ last.audio.index = last.index /\ last.index < Len(ath.trials_df)) =>
        /\ last.audio.level = last.parameter
        /\ Last(level_data) = last.parameter

\* C7: the outcome of scoring is PASS (1) exactly when the list of incorrect
\* words is empty, and FAIL (-1) otherwise.
C7_PassIffNoIncorrectWord ==
    call.done =>
        /\ "outcome" \in sm.attrs
        /\ sm.outcome = 1 <=> call.resp_dict.incorrect = <<>>
        /\ sm.outcome = -1 <=> call.resp_dict.incorrect # <<>>

C7_Witness ==
    /\ call.done
    /\ call.resp_dict.incorrect # <<>>
    /\ call.resp_dict.correct # <<>>
    /\ sm.outcome = -1

Keys(value) == {i \in 1..Len(call.button_states) : call.button_states[i][2] = value}

\* C8: every word marked 1 is in correct_words, every word marked 0 is in
\* incorrect_words and a word in any other state is in neither: each list
\* holds one entry per word with its mark, and nothing else.
C8_MarksArePartitioned ==
    call.done =>
        /\ Len(call.resp_dict.correct) = Cardinality(Keys(1))
        /\ Len(call.resp_dict.incorrect) = Cardinality(Keys(0))
        /\ \A t \in ScoreWords :
              /\ Count(t, call.resp_dict.correct)
                   = Cardinality({i \in Keys(1) : call.words[i] = t})
              /\ Count(t, call.resp_dict.incorrect)
                   = Cardinality({i \in Keys(0) : call.words[i] = t})

C8_Witness ==
    /\ call.done
    /\ Keys(1) # {} /\ Keys(0) # {} /\ Keys(2) # {}
    /\ Len(call.resp_dict.correct) + Len(call.resp_dict.incorrect)
         < Len(call.button_states)

\* C9 as stated: a permutation of the entries gives the same correct_words,
\* the same incorrect_words and the same outcome.
C9_SameListsUnderPermutation ==
    call.done =>
        /\ call.resp_perm = call.resp_dict
        /\ call.outcome_perm = sm.outcome

\* C9 as amended: a permutation of the entries gives the same outcome and
\* the same correct and incorrect words up to their order in the lists.
C9_SameOutcomeUpToOrder ==
    call.done =>
        /\ call.outcome_perm = sm.outcome
        /\ SameBag(call.resp_perm.correct, call.resp_dict.correct)
        /\ SameBag(call.resp_perm.incorrect, call.resp_dict.incorrect)

C9_Witness ==
    /\ call.done
    /\ call.permuted # call.button_states
    /\ call.resp_perm.correct # call.resp_dict.correct
    /\ call.resp_dict.incorrect # <<>>

\* C10 as stated: a call of score changes no state of the scorer.
C10_ScoreChangesNothing ==
    call.done => sm = call.before

\* C10 as amended: a call of score assigns the scorer's outcome attribute,
\* from its arguments alone, and changes nothing else: not final_snr, no
\* other attribute, no other component.
C10_ScoreWritesOnlyOutcome ==
    call.done =>
        /\ sm.attrs = call.before.attrs \cup {"outcome"}
        /\ sm.final_snr = call.before.final_snr
        /\ sm.outcome = (IF Keys(0) = {} THEN 1 ELSE -1)
        /\ settings = DefaultSettings
        /\ level_data = <<>> /\ start_flag /\ ath = NoHandler
        /\ csv.rows = 0 /\ ~audio.played

C10_Witness ==
    /\ call.done
    /\ "outcome" \in call.before.attrs
    /\ call.before.outcome = -1
    /\ sm.outcome = 1

\* The entries of the level history from index 4 (the fifth entry) on.
Kept == [i \in 1..(Len(level_data) - 4) |-> level_data[i + 4]]

\* C11: for a history of 5 or more levels the estimate is the mean of the
\* entries from index 4 on minus the noise level, whatever the first four
\* entries are; <<70, 66, 68, 64, 62, 60, 58, 56>> with noise 65 gives -6.
C11_MeanFromIndexFour ==
    (last.op = "get_snr" /\ Len(level_data) >= 5) =>
        /\ last.exc = "none"
        /\ "final_snr" \in sm.attrs
        /\ sm.final_snr.den > 0
        /\ sm.final_snr.num * Len(Kept)
             = (Sum(Kept) - settings.noise_level_dB * Len(Kept)) * sm.final_snr.den
        /\ \A first \in [1..4 -> SnrLevels \cup {70}] :
              get_snr(ScoreModel, first \o Kept, settings.noise_level_dB).sm.final_snr
                = sm.final_snr
        /\ (level_data = SnrExample /\ settings.noise_level_dB = 65)
             => sm.final_snr.num = (-6) * sm.final_snr.den

C11_Witness ==
    /\ last.op = "get_snr"
    /\ level_data = SnrExample
    /\ settings.noise_level_dB = 65
    /\ sm.final_snr = [num |-> -24, den |-> 4]

\* C12: get_snr raises and assigns no result for a history of 0 to 4 levels,
\* and assigns the estimate without raising for a history of 5 or more.
C12_DefinedFromFiveLevels ==
    last.op = "get_snr" =>
        IF Len(level_data) <= 4
        THEN last.exc = "StatisticsError" /\ sm = ScoreModel
        ELSE last.exc = "none" /\ "final_snr" \in sm.attrs

C12_Witness ==
    /\ last.op = "get_snr"
    /\ Len(level_data) = 4
    /\ last.exc = "StatisticsError"
    /\ "final_snr" \notin sm.attrs

\* C13: when the trials are exhausted with fewer than 5 levels recorded, the
\* end of the task shows no score and reports the failure to the user: no
\* exception leaves on_next and a message box tells of the missing data.
C13_InsufficientDataIsReported ==
    (last.op = "on_next" /\ ath.made /\ ath.index >= Len(ath.trials_df)
       /\ Len(level_data) < 5) =>
        /\ "final_snr" \notin sm.attrs
        /\ last.shown \notin {"none", "Task Complete"}
        /\ last.exc = "none"

\* C14: _end_of_task runs only when the handler is out of trials, and at
\* most once in a run.
C14_EndOfTaskAtMostOnce ==
    /\ ended <= 1
    /\ ended > 0 => (ath.made /\ ath.index >= Len(ath.trials_df))

\* C15: an on_next after the first that presents a trial has, before the
\* presentation, scored the trial on display, written its record, recorded
\* its level and advanced the handler: the record holds the words scored in
\* this call and the trial as it was before the advancement, the history has
\* one more entry, and the trial presented is the one advanced to.
C15_ScoredSavedAdvancedBeforePresented ==
    (last.op = "on_next" /\ last.scored /\ last.exc = "none"
       /\ ath.index < Len(ath.trials_df)) =>
        /\ csv.rows = last.rows + 1
        /\ csv.row.correct = _get_word_lists(last.words, ButtonStates(last.states)).correct
        /\ csv.row.incorrect = _get_word_lists(last.words, ButtonStates(last.states)).incorrect
        /\ Len(level_data) = Len(last.level_data) + 1
        /\ ath.index = last.index + 1
        /\ audio.played /\ audio.index = ath.index

\* C16: while a stimulus is being played, after on_next or after Repeat, the
\* Next event cannot be processed: the controls are not enabled.
C16_NoNextWhilePresenting ==
    (alive /\ playing) => main_view.controls # "Next"

\* C17: the lists, step sizes and noise level in effect when Start was
\* pressed are the ones the handler works with and the ones of the final
\* estimate: the noise level subtracted is the one of the session start.
C17_SessionConfigurationIsFixed ==
    /\ ath.made =>
          /\ ath.step_sizes = string_to_list(session.step_sizes)
          /\ \A i \in 1..Len(ath.trials_df) :
                ath.trials_df[i].list_num \in Range(string_to_list(session.lists))
    /\ "final_snr" \in sm.attrs =>
          /\ sm.final_snr.den = Len(Kept)
          /\ sm.final_snr.num = Sum(Kept) - session.noise_level_dB * Len(Kept)

\* A step in which on_next scores a trial.
ScoringStep == last' # last /\ last'.op = "on_next" /\ last'.scored

\* A step in which the user quits: the main loop ends and no handler of the
\* session has run.
QuitStep == alive /\ ~alive' /\ last' = last

\* C18: quitting leaves the level history as it is, and the history holds
\* one entry per trial scored: every scoring on_next appends exactly one
\* entry and no other step changes the history.
C18_QuitKeepsHistory ==
    [][/\ QuitStep => level_data' = level_data
       /\ ScoringStep => (Len(level_data') = Len(level_data) + 1
                           /\ SubSeq(level_data', 1, Len(level_data)) = level_data)
       /\ ~ScoringStep => level_data' = level_data]_vars

C18_Witness ==
    /\ ~alive
    /\ last.op = "on_next" /\ last.shown # "Task Complete"
    /\ ath.index < Len(ath.trials_df)
    /\ Len(level_data) >= 2

\* The positions of the catalog rows of a selected list.
Selected ==
    {i \in 1..Len(call.catalog) :
        \E k \in 1..Len(string_to_list(settings.lists)) :
            call.catalog[i].list_num = string_to_list(settings.lists)[k]}

\* The k-th selected position, counted from the start of the catalog.
NthSelected(k) == CHOOSE i \in Selected : Cardinality({j \in Selected : j < i}) = k - 1

\* C19: the selection is exactly the catalog rows of the selected lists, in
\* the order of the catalog; with no such row it is the empty sequence.
C19_SelectionIsFilterInOrder ==
    call.done =>
        /\ Len(call.trials_df) = Cardinality(Selected)
        /\ \A k \in 1..Len(call.trials_df) : call.trials_df[k] = call.catalog[NthSelected(k)]
        /\ Selected = {} => call.trials_df = <<>>

C19_Witness ==
    /\ call.done
    /\ Len(call.catalog) = 4
    /\ Selected = {2, 4}
    /\ call.catalog[2].list_num = 3 /\ call.catalog[4].list_num = 1
    /\ call.trials_df = <<call.catalog[2], call.catalog[4]>>

\* C20: a failed load of the catalog is reported to the caller and not
\* answered with a placeholder: import_matrix_file does not return None, and
\* no trial begins after the failed load.
C20_LoadFailureIsNotMasked ==
    (last.op = "on_start" /\ last.import = "TypeError") =>
        /\ ~import_matrix_file(last.import).none
        /\ ~ath.made /\ ~audio.played /\ main_view.words = <<>>

\* A step of on_start or on_next.
SessionStep == last' # last

\* C21: the handler's level changes only in an on_next that scores a trial
\* and advances by one trial, by one step for the outcome just scored;
\* Repeat, the settings dialog, the timer and Quit leave the trial index, the
\* level and the level history as they are.
C21_OnlyScoringMovesTheLevel ==
    [][/\ ~SessionStep =>
             (ath' = ath /\ level_data' = level_data)
       /\ (ath.made /\ ath'.parameter # ath.parameter) =>
             /\ ScoringStep
             /\ ath'.index = ath.index + 1
             /\ ath'.parameter = ath.parameter - sm'.outcome * ScheduleStep(ath.index)]_vars

\* Repeat has just been pressed in a running session.
C21_Witness ==
    /\ alive /\ playing /\ ~timer
    /\ main_view.controls = "Next"
    /\ ath.index >= 2
    /\ ath.parameter # settings.starting_level_dB
    /\ Len(level_data) = ath.index

\* C22: the level is not clamped: every advancement subtracts the response
\* times the step size, also below zero; with a step size of zero the level
\* stays where it is after either outcome, and the advancement raises no
\* error.
C22_LevelIsNotClamped ==
    /\ \A k \in 1..Len(hist) :
          LET before == IF k = 1 THEN settings.starting_level_dB ELSE hist[k - 1].level
          IN hist[k].level = before - hist[k].response * ScheduleStep(k - 1)
    /\ ath.made => ath.parameter = (IF hist = <<>> THEN settings.starting_level_dB
                                    ELSE Last(hist).level)
    /\ (ath.made /\ Schedule = <<0>>) =>
          /\ ath.step_sizes = <<0>>
          /\ ath.parameter = settings.starting_level_dB
          /\ ath.index = Len(hist)
    /\ (last.op = "next" /\ ath.index < Len(ath.trials_df)) => last.exc = "none"

C22_Witness ==
    /\ Len(hist) >= 3
    /\ \A k \in 1..Len(hist) : hist[k].response = 1
    /\ hist[1].level = -1
    /\ ath.parameter = -7

\* C23: every record written has the field order trial, subject, condition,
\* list_num, sentence_num, desired_level_dB, correct, incorrect, step_size,
\* response.
C23_RecordFieldOrder ==
    csv.rows > 0 =>
        /\ Len(csv.row.order) = 10
        /\ csv.row.order[1] = "trial" /\ csv.row.order[2] = "subject"
        /\ csv.row.order[3] = "condition" /\ csv.row.order[4] = "list_num"
        /\ csv.row.order[5] = "sentence_num" /\ csv.row.order[6] = "desired_level_dB"
        /\ csv.row.order[7] = "correct" /\ csv.row.order[8] = "incorrect"
        /\ csv.row.order[9] = "step_size" /\ csv.row.order[10] = "response"

C23_Witness ==
    /\ csv.rows >= 3
    /\ csv.row.trial_info.sentence_num = 2
    /\ csv.row.incorrect # <<>>
    /\ csv.row.order[10] = "response"

\* C24: when the selected lists yield no trial, the first trial request made
\* by Start finds the handler out of trials and ends the task at once: no
\* sentence is displayed, no stimulus played, no trial scored.
C24_ZeroTrialsEndAtOnce ==
    (last.op = "on_start" /\ last.import = "ok" /\ ath.made /\ Len(ath.trials_df) = 0) =>
        /\ ended >= 1
        /\ last.exc # "AttributeError"
        /\ main_view.words = <<>>
        /\ ~audio.played
        /\ csv.rows = 0
        /\ level_data = <<>>

\* C25: the outcome on_next hands to the handler is defined whenever it is
\* read, the first on_next made by on_start included, so that on_start
\* fetches the first trial without error.
C25_OutcomeIsDefinedWhenRead ==
    /\ last.op \in {"on_start", "on_next"} => last.exc # "AttributeError"
    /\ (last.op = "on_start" /\ last.import = "ok" /\ Len(ath.trials_df) > 0) =>
          /\ "outcome" \in sm.attrs
          /\ ath.trial_info = ath.trials_df[1]

\* C26: the first presentation of a session is made at starting_level_dB,
\* for the first trial, before any step of the staircase.
C26_FirstTrialAtStartingLevel ==
    (audio.played /\ ~last.audio.played) =>
        /\ audio.level = session.starting_level_dB
        /\ audio.index = 0
        /\ hist = <<>>
        /\ ath.parameter = session.starting_level_dB

\* C27: an on_next that advances the handler hands it the outcome of the
\* trial scored in that call, not the outcome of an earlier trial; the first
\* on_next, made by on_start, scores nothing, writes no record and appends
\* no level.
C27_OutcomePassedIsScoredInThisCall ==
    /\ last.op = "on_start" =>
          /\ "outcome" \notin sm.attrs
          /\ csv.rows = 0
          /\ level_data = <<>>
          /\ hist = <<>>
    /\ Advanced =>
          /\ last.scored
          /\ csv.rows > last.rows =>
                (csv.row.incorrect = <<>> <=> ExpectedOutcome(last.states) = 1)
          /\ ath.parameter =
                last.parameter - ExpectedOutcome(last.states) * ScheduleStep(last.index)

C27_Witness ==
    /\ Advanced
    /\ Len(hist) >= 2
    /\ hist[Len(hist) - 1].response = 1
    /\ ExpectedOutcome(last.states) = -1
    /\ ath.parameter = last.parameter + ScheduleStep(last.index)
    /\ ScheduleStep(last.index) > 0

\* C28 as stated: once on_start has run, the Start command is disabled.
C28_StartDisabledOnceRun ==
    last.op \in {"on_start", "on_next"} => menu_start = "disabled"

\* C28: once on_start has created the trial handler the Start command is
\* disabled, so that no second handler is created; as long as no handler
\* has been created (no Start yet, or an on_start that failed loading the
\* matrix file) the level history is empty and the start flag is set.
C28_OneHandlerPerRun ==
    /\ ath.made => menu_start = "disabled"
    /\ ~ath.made =>
          /\ menu_start = "normal"
          /\ level_data = <<>>
          /\ start_flag
          /\ hist = <<>>
    /\ (last.op = "on_start" /\ last.made) => last.level_data = <<>>

C28_Witness ==
    /\ ath.made
    /\ menu_start = "disabled"
    /\ ~start_flag
    /\ Len(level_data) >= 2
    /\ ath.index >= 2

\* C29: the on_next in which the handler signals exhaustion does nothing of
\* the presentation (sentence, trial number, controls, playback, timer), and
\* once the end of the task has run no trial is scored or presented.
C29_NothingAfterEndOfTask ==
    [][/\ ended' > ended =>
             /\ main_view' = main_view
             /\ audio' = audio
             /\ timer' = timer
             /\ playing' = playing
       /\ ended >= 1 =>
             /\ level_data' = level_data
             /\ csv' = csv
             /\ sm'.outcome = sm.outcome
             /\ ~(playing' /\ ~playing)]_vars

\* The level the staircase holds when trial k (from 1) is scored, from the
\* starting level of the session and the outcomes so far.
StaircaseLevel(k) == IF k = 1 THEN session.starting_level_dB ELSE hist[k - 1].level

\* C30: the level history and the final estimate are determined by the trial
\* sequence, the step sizes, the starting level and the noise level of the
\* session and by the outcomes: entry k of the history is the level of the
\* staircase after the first k - 1 outcomes, and the estimate is the mean of
\* these levels from the fifth on minus the noise level of the session.
C30_HistoryDeterminedByInputs ==
    /\ \A k \in 1..Min(Len(level_data), Len(hist)) : level_data[k] = StaircaseLevel(k)
    /\ ("final_snr" \in sm.attrs /\ Len(hist) = Len(level_data)) =>
          sm.final_snr.num =
             Sum([k \in 1..(Len(hist) - 4) |-> StaircaseLevel(k + 4)])
                - session.noise_level_dB * (Len(hist) - 4)

====
